---- MODULE Spec2Model ----
(***************************************************************************)
(* minicov: the streaming writer bridge (write_callback), the version gate *)
(* (check_version) and the three host operations capture_coverage,         *)
(* merge_coverage and reset_coverage of src/minicov/src/lib.rs, together   *)
(* with the part of the LLVM profiling runtime they talk to.               *)
(*                                                                         *)
(* A byte is a number in 0..255, memory is a sequence of bytes addressed   *)
(* from 1, the null pointer is address 0, and a u64 is its eight bytes in  *)
(* little-endian order.                                                    *)
(***************************************************************************)
EXTENDS Integers, Sequences, FiniteSets, TLC

VARIABLES
    version,    \* the runtime's version word (u64, eight bytes)
    alloc,      \* the "alloc" cargo feature of the build
    counters,   \* the runtime's live counters
    heap,       \* live blocks handed out by minicov_alloc_zeroed: the
                \* runtime's value-profiling nodes
    lastAlloc,  \* what the last minicov_alloc_zeroed call returned
    mem,        \* the memory the IO-vector Data pointers point into
    pc,         \* where the program is
    queue,      \* lprofWriteData: the IO-vector lists still to be written
    vpReader,   \* lprofWriteData: its VPDataReader argument
    iovecs,     \* write_callback: the list it was handed
    idx,        \* write_callback: entries of the list finished so far
    remaining,  \* write_callback: `remaining` of the padding loop
    status,     \* write_callback: its return value
    sink,       \* the bytes the sink has accepted
    sinkCalls,  \* every CoverageWriter::write call of this capture, in order
    fed,        \* every IO-vector entry handed to write_callback, in order
    cbCount,    \* write_callback invocations of this capture
    res,        \* what lprofWriteData returned
    result,     \* what the last host operation returned
    rtLog,      \* runtime entry points called by the current host operation
    phase,      \* progress of a capture, reset, merge sequence
    snap        \* the counters immediately before the reset of that sequence

vars == <<version, alloc, counters, heap, lastAlloc, mem, pc, queue, vpReader,
          iovecs, idx, remaining, status, sink, sinkCalls, fed, cbCount, res,
          result, rtLog, phase, snap>>

rtVars == <<version, alloc, counters, heap, lastAlloc>>
cbVars == <<iovecs, idx, remaining, status>>
ioVars == <<sink, sinkCalls, fed, cbCount>>
ghostVars == <<phase, snap>>

-----------------------------------------------------------------------------
(* Bounds of the model *)

MaxEntries == 3     \* IO-vector entries handed over during one capture
MaxCallbacks == 2   \* write_callback invocations during one capture
MaxCount == 2       \* largest value a counter takes

-----------------------------------------------------------------------------
(* Bytes and words *)

NULL == 0

Min(a, b) == IF a < b THEN a ELSE b

RECURSIVE LE(_, _)
\* the k low bytes of n, little-endian
LE(n, k) == IF k = 0 THEN <<>> ELSE <<n % 256>> \o LE(n \div 256, k - 1)

RECURSIVE FromLE(_)
FromLE(bs) == IF bs = <<>> THEN 0 ELSE Head(bs) + 256 * FromLE(Tail(bs))

RECURSIVE ByteAndNot(_, _, _)
\* a & !m on the k low bits
ByteAndNot(a, m, k) ==
    IF k = 0 THEN 0
    ELSE (IF m % 2 = 1 THEN 0 ELSE a % 2) + 2 * ByteAndNot(a \div 2, m \div 2, k - 1)

Zeros(n) == [i \in 1..n |-> 0]

RECURSIVE Flatten(_)
Flatten(ss) == IF ss = <<>> THEN <<>> ELSE Head(ss) \o Flatten(Tail(ss))

IsPrefix(s, t) == Len(s) <= Len(t) /\ SubSeq(t, 1, Len(s)) = s

-----------------------------------------------------------------------------
(* lib.rs: constants *)

INSTR_PROF_RAW_VERSION == 10

\* mutant: only the top byte, 0xff00000000000000
VARIANT_MASKS_TopByte == <<0, 0, 0, 0, 0, 0, 0, 255>>

\* 0xffffffff00000000
VARIANT_MASKS_ALL == <<0, 0, 0, 0, 255, 255, 255, 255>>

\* let zero = [0; 16];
zero == Zeros(16)

-----------------------------------------------------------------------------
(* lib.rs: the sink *)

\* impl CoverageWriter for Vec<u8>: extend_from_slice(data)
VecWrite(self, data) == self \o data

\* A CoverageWriter::write call on `data` for entry number `e` of the capture.
\* A sink that returns Ok has taken the whole chunk; one that returns Err is
\* not counted as having accepted it.
SinkWrite(data, e, ok) ==
    /\ sinkCalls' = Append(sinkCalls, [entry |-> e, chunk |-> data, ok |-> ok])
    /\ sink' = IF ok THEN VecWrite(sink, data) ELSE sink

-----------------------------------------------------------------------------
(* lib.rs: write_callback *)

\* mutant: the element count is left out
IovLen_NoCount(iov) == iov.ElmSize

\* let len = iov.ElmSize * iov.NumElm;
IovLen(iov) == iov.ElmSize * iov.NumElm

\* slice::from_raw_parts(iov.Data, len)
FromRawParts(m, data, len) == SubSeq(m, data, data + len - 1)

\* mutant: the whole scratch chunk every time, `&zero[..]`
PadChunk_Whole(rem) == zero

\* &zero[..usize::min(zero.len(), remaining)]
PadChunk(rem) == SubSeq(zero, 1, Min(Len(zero), rem))

\* The number of the entry write_callback is at, counted over the capture.
CurEntry == Len(fed) - Len(iovecs) + idx + 1

\* write_callback is entered with a list: `for iov in slice::from_raw_parts(..)`
CbEnter(list) ==
    /\ iovecs' = list
    /\ idx' = 0
    /\ remaining' = 0
    /\ status' = 0
    /\ fed' = fed \o list
    /\ cbCount' = cbCount + 1
    /\ pc' = "loop"

\* mutant: the error is noted but the loop goes on
CbFail_KeepGoing ==
    /\ status' = 1
    /\ pc' = pc

\* `return 1` out of either write
CbFail ==
    /\ status' = 1
    /\ pc' = "ret"

\* mutant: the result of the write is dropped, `let _ = writer.write(data)`
CbData_IgnoreError(ok) ==
    /\ pc = "loop"
    /\ idx < Len(iovecs)
    /\ iovecs[idx + 1].Data # NULL
    /\ LET iov == iovecs[idx + 1]
           data == FromRawParts(mem, iov.Data, IovLen(iov))
       IN  SinkWrite(data, CurEntry, ok)
    /\ idx' = idx + 1
    /\ UNCHANGED <<rtVars, mem, queue, vpReader, iovecs, remaining, fed,
                   cbCount, res, result, rtLog, ghostVars, pc, status>>

\* else branch: a backed entry is forwarded in one write
CbData(ok) ==
    /\ pc = "loop"
    /\ idx < Len(iovecs)
    /\ iovecs[idx + 1].Data # NULL
    /\ LET iov == iovecs[idx + 1]
           data == FromRawParts(mem, iov.Data, IovLen(iov))
       IN  SinkWrite(data, CurEntry, ok)
    /\ IF ok
       THEN idx' = idx + 1 /\ UNCHANGED <<pc, status>>
       ELSE CbFail /\ UNCHANGED idx
    /\ UNCHANGED <<rtVars, mem, queue, vpReader, iovecs, remaining, fed,
                   cbCount, res, result, rtLog, ghostVars>>

\* mutant: a null entry is passed over, nothing is padded
CbNull_Skip ==
    /\ pc = "loop"
    /\ idx < Len(iovecs)
    /\ iovecs[idx + 1].Data = NULL
    /\ remaining' = 0
    /\ pc' = "pad"
    /\ UNCHANGED <<rtVars, mem, queue, vpReader, iovecs, idx, status, ioVars,
                   res, result, rtLog, ghostVars>>

\* if iov.Data.is_null(): let mut remaining = len;
CbNull ==
    /\ pc = "loop"
    /\ idx < Len(iovecs)
    /\ iovecs[idx + 1].Data = NULL
    /\ remaining' = IovLen(iovecs[idx + 1])
    /\ pc' = "pad"
    /\ UNCHANGED <<rtVars, mem, queue, vpReader, iovecs, idx, status, ioVars,
                   res, result, rtLog, ghostVars>>

\* mutant: the loop tests `remaining` after its body, do { .. } while
CbPad_DoWhile(ok) ==
    /\ pc = "pad"
    /\ remaining # 0 \/ \A k \in DOMAIN sinkCalls : sinkCalls[k].entry # CurEntry
    /\ LET data == PadChunk(remaining)
       IN  /\ SinkWrite(data, CurEntry, ok)
           /\ IF ok
              THEN remaining' = remaining - Len(data) /\ UNCHANGED <<pc, status>>
              ELSE CbFail /\ UNCHANGED remaining
    /\ UNCHANGED <<rtVars, mem, queue, vpReader, iovecs, idx, fed, cbCount,
                   res, result, rtLog, ghostVars>>

\* one iteration of `while remaining != 0`
CbPad(ok) ==
    /\ pc = "pad"
    /\ remaining # 0
    /\ LET data == PadChunk(remaining)
       IN  /\ SinkWrite(data, CurEntry, ok)
           /\ IF ok
              THEN remaining' = remaining - Len(data) /\ UNCHANGED <<pc, status>>
              ELSE CbFail /\ UNCHANGED remaining
    /\ UNCHANGED <<rtVars, mem, queue, vpReader, iovecs, idx, fed, cbCount,
                   res, result, rtLog, ghostVars>>

\* `while remaining != 0` exits
CbPadDone ==
    /\ pc = "pad"
    /\ remaining = 0
    /\ idx' = idx + 1
    /\ pc' = "loop"
    /\ UNCHANGED <<rtVars, mem, queue, vpReader, iovecs, remaining, status,
                   ioVars, res, result, rtLog, ghostVars>>

\* the for loop is exhausted: the trailing `0`
CbReturn ==
    /\ pc = "loop"
    /\ idx = Len(iovecs)
    /\ status' = 0
    /\ pc' = "ret"
    /\ UNCHANGED <<rtVars, mem, queue, vpReader, iovecs, idx, remaining, ioVars,
                   res, result, rtLog, ghostVars>>

-----------------------------------------------------------------------------
(* The runtime's lprofWriteData: it calls Writer->Write once per list and   *)
(* gives up with a nonzero result as soon as one call returns nonzero.     *)

RtWrite ==
    /\ pc = "runtime"
    /\ queue # <<>>
    /\ CbEnter(Head(queue))
    /\ queue' = Tail(queue)
    /\ UNCHANGED <<rtVars, mem, vpReader, sink, sinkCalls, res, result, rtLog,
                   ghostVars>>

\* a call of a runtime entry point and what it returned
Call(fn, ret) == [fn |-> fn, ret |-> ret]

RtResume ==
    /\ pc = "ret"
    /\ IF status # 0
       THEN /\ res' = -1
            /\ pc' = "done"
            /\ rtLog' = Append(rtLog, Call("lprofWriteData", -1))
       ELSE /\ res' = res
            /\ pc' = "runtime"
            /\ rtLog' = rtLog
    /\ UNCHANGED <<rtVars, mem, queue, vpReader, cbVars, ioVars, result,
                   ghostVars>>

RtFinish ==
    /\ pc = "runtime"
    /\ queue = <<>>
    /\ res' = 0
    /\ pc' = "done"
    /\ rtLog' = Append(rtLog, Call("lprofWriteData", 0))
    /\ UNCHANGED <<rtVars, mem, queue, vpReader, cbVars, ioVars, result,
                   ghostVars>>

-----------------------------------------------------------------------------
(* lib.rs: capture_coverage, after lprofWriteData has returned *)

\* mutant: only a positive result counts as a failure
CaptureResult_Positive(r) == IF r > 0 THEN "CoverageWriteError" ELSE "Ok"

\* if res == 0 { Ok(()) } else { Err(CoverageWriteError) }
CaptureResult(r) == IF r = 0 THEN "Ok" ELSE "CoverageWriteError"

\* The host is minicov-test's main: capture_coverage(&mut coverage).unwrap(),
\* which panics on Err and goes on with the blob on Ok.
CaptureReturn ==
    /\ pc = "done"
    /\ result' = CaptureResult(res)
    /\ pc' = IF result' = "Ok" THEN "idle" ELSE "unwrap_failed"
    /\ phase' = IF result' = "Ok" THEN 1 ELSE 0
    /\ UNCHANGED <<rtVars, mem, queue, vpReader, cbVars, ioVars, res, rtLog, snap>>

-----------------------------------------------------------------------------
(* lib.rs: check_version *)

\* __llvm_profile_get_version() & !VARIANT_MASKS_ALL
MaskVariant(v) ==
    [i \in 1..8 |-> IF VARIANT_MASKS_ALL[i] = 0 THEN v[i]
                    ELSE ByteAndNot(v[i], VARIANT_MASKS_ALL[i], 8)]

\* assert_eq!(version, INSTR_PROF_RAW_VERSION, ..)
VersionOk(v) == MaskVariant(v) = LE(INSTR_PROF_RAW_VERSION, 8)

\* The assertion fails: the operation panics with nothing else done.
Panic ==
    /\ pc' = "panicked"
    /\ rtLog' = <<Call("get_version", version)>>
    /\ UNCHANGED <<rtVars, mem, queue, vpReader, cbVars, ioVars, res, result,
                   ghostVars>>

-----------------------------------------------------------------------------
(* lib.rs: the allocation shim *)

\* mutant: the allocator is used whatever the feature
minicov_alloc_zeroed_Always(size, align, fresh) == fresh

\* minicov_alloc_zeroed: alloc::alloc::alloc_zeroed(layout) with the "alloc"
\* feature (`fresh` is what the allocator returns), null_mut() without it
minicov_alloc_zeroed(size, align, fresh) == IF alloc THEN fresh ELSE NULL

\* minicov_dealloc: alloc::alloc::dealloc(ptr, layout) with the "alloc"
\* feature, an empty body without it
minicov_dealloc(h, ptr, size, align) == IF alloc THEN h \ {ptr} ELSE h

-----------------------------------------------------------------------------
(* The runtime. Its C sources are not among the sources at hand; this is    *)
(* the behaviour the specification gives it, on a small raw-profile layout: *)
(*   header   the version word (8 bytes), the number of counters, the size  *)
(*            of the names                                                  *)
(*   counters 8 bytes each, little-endian                                   *)
(*   padding  up to a multiple of 8, written through a null-pointer entry   *)
(*   names    one byte per counter                                          *)
(*   padding  up to a multiple of 8                                         *)
(*   value-profiling records, one Write call each                           *)

\* the instrumented binary: its counters and its value-profiling sites
CounterIds == {1, 2}

ValueSites == {1}

NumCounters == Cardinality(CounterIds)

CounterSize == 8

HeaderSize == 8 + 2

NamesSize == NumCounters

VPRecordSize == 4

PaddingBytes(n) == (8 - (n % 8)) % 8

Header(v) == v \o <<NumCounters, NamesSize>>

CounterBytes(c) == Flatten([i \in CounterIds |-> LE(c[i], CounterSize)])

Names == [i \in CounterIds |-> 96 + i]

VPRecord(k) == <<86, 80, k, 1>>

VPBytes(n) == Flatten([k \in 1..n |-> VPRecord(k)])

VPNodes == Cardinality(heap)

HeaderAddr == 1
CountersAddr == HeaderAddr + HeaderSize
NamesAddr == CountersAddr + CounterSize * NumCounters
VPAddr(k) == NamesAddr + NamesSize + (k - 1) * VPRecordSize

\* what the Data pointers of lprofWriteData's IO-vectors point at
RuntimeMem(v, c, n) == Header(v) \o CounterBytes(c) \o Names \o VPBytes(n)

IOVec(data, size, num, pad) ==
    [Data |-> data, ElmSize |-> size, NumElm |-> num, UseZeroPadding |-> pad]

\* lprofGetVPDataReader(): the address of the runtime's reader object
VPDataReader == 1

\* the IO-vector lists lprofWriteData hands to Writer->Write, in order
WriteDataLists(reader, n) ==
    << << IOVec(HeaderAddr, HeaderSize, 1, 0),
          IOVec(CountersAddr, CounterSize, NumCounters, 0),
          IOVec(NULL, 1, PaddingBytes(HeaderSize + CounterSize * NumCounters), 1),
          IOVec(NamesAddr, 1, NamesSize, 0),
          IOVec(NULL, 1, PaddingBytes(NamesSize), 1) >> >>
    \o (IF reader # NULL
        THEN [k \in 1..n |-> <<IOVec(VPAddr(k), 1, VPRecordSize, 0)>>]
        ELSE <<>>)

\* the blob a complete capture is
Blob(v, c, n) ==
    Header(v) \o CounterBytes(c)
    \o Zeros(PaddingBytes(HeaderSize + CounterSize * NumCounters))
    \o Names \o Zeros(PaddingBytes(NamesSize)) \o VPBytes(n)

BodySize ==
    HeaderSize + CounterSize * NumCounters
    + PaddingBytes(HeaderSize + CounterSize * NumCounters)
    + NamesSize + PaddingBytes(NamesSize)

\* __llvm_profile_check_compatibility: 0 when the header of the blob agrees
\* with the live runtime
CheckCompatibility(data) ==
    IF /\ Len(data) >= HeaderSize
       /\ MaskVariant(SubSeq(data, 1, 8)) = MaskVariant(version)
       /\ data[9] = NumCounters
       /\ data[10] = NamesSize
    THEN 0 ELSE 1

\* __llvm_profile_merge_from_buffer: 0 when the blob is whole; all or nothing
MergeStatus(data) ==
    IF Len(data) >= BodySize /\ (Len(data) - BodySize) % VPRecordSize = 0
    THEN 0 ELSE 1

BlobCounter(data, i) ==
    FromLE(SubSeq(data, HeaderSize + CounterSize * (i - 1) + 1,
                  HeaderSize + CounterSize * i))

\* the counters after a merge that returned 0: elementwise addition
Merged(c, data) == [i \in CounterIds |-> c[i] + BlobCounter(data, i)]

NoCounts == [i \in CounterIds |-> 0]

-----------------------------------------------------------------------------
(* Instrumented code and the runtime's value-profiling hook *)

\* What is left of the last host operation (its locals, its result and the
\* logs kept of it) is gone once the program moves on.
Forget ==
    /\ mem' = <<>>
    /\ queue' = <<>>
    /\ vpReader' = NULL
    /\ iovecs' = <<>>
    /\ idx' = 0
    /\ remaining' = 0
    /\ status' = 0
    /\ sinkCalls' = <<>>
    /\ fed' = <<>>
    /\ cbCount' = 0
    /\ res' = 0

RunInstrumented(i) ==
    /\ pc = "idle"
    /\ counters[i] < MaxCount
    /\ counters' = [counters EXCEPT ![i] = @ + 1]
    /\ phase' = 0
    /\ snap' = NoCounts
    /\ Forget
    /\ result' = "none"
    /\ rtLog' = <<>>
    /\ UNCHANGED <<version, alloc, heap, lastAlloc, pc, sink>>

HeapBase == 1000

AllocSizes == {1, 24}
AllocAligns == {1, 8}

\* the runtime asks the shim for a zeroed node; it records a value only when
\* it got one
ValueProfile(size, align) ==
    /\ pc = "idle"
    /\ VPNodes < Cardinality(ValueSites)
    /\ LET p == minicov_alloc_zeroed(size, align, HeapBase + VPNodes)
       IN  /\ lastAlloc' = p
           /\ heap' = IF p # NULL THEN heap \cup {p} ELSE heap
    /\ phase' = 0
    /\ snap' = NoCounts
    /\ Forget
    /\ result' = "none"
    /\ rtLog' = <<>>
    /\ UNCHANGED <<version, alloc, counters, pc, sink>>

\* the runtime hands a block back to the shim: one it holds, or, after a
\* failed allocation, the null it was given
RtRelease(ptr, size, align) ==
    /\ pc = "idle"
    /\ IF alloc THEN ptr \in heap ELSE ptr = NULL
    /\ heap' = minicov_dealloc(heap, ptr, size, align)
    /\ UNCHANGED lastAlloc
    /\ phase' = 0
    /\ snap' = NoCounts
    /\ Forget
    /\ result' = "none"
    /\ rtLog' = <<>>
    /\ UNCHANGED <<version, alloc, counters, pc, sink>>

-----------------------------------------------------------------------------
(* lib.rs: capture_coverage, up to the call of lprofWriteData *)

\* the VPDataReader argument of lprofWriteData(&mut prof_writer, .., 0)
CaptureReaderArg == VPDataReader

\* check_version, then lprofWriteData on a writer bound to the host's sink,
\* which the host hands over empty (`let mut coverage = vec![]`)
Capture ==
    /\ pc = "idle"
    /\ IF ~VersionOk(version)
       THEN Panic
       ELSE /\ rtLog' = <<Call("get_version", version),
                          Call("lprofGetVPDataReader", VPDataReader)>>
            /\ vpReader' = CaptureReaderArg
            /\ queue' = WriteDataLists(vpReader', VPNodes)
            /\ mem' = RuntimeMem(version, counters, VPNodes)
            /\ sink' = <<>>
            /\ sinkCalls' = <<>>
            /\ fed' = <<>>
            /\ cbCount' = 0
            /\ res' = 0
            /\ result' = "pending"
            /\ phase' = 0
            /\ snap' = NoCounts
            /\ pc' = "runtime"
            /\ iovecs' = <<>>
            /\ idx' = 0
            /\ remaining' = 0
            /\ status' = 0
            /\ UNCHANGED rtVars

-----------------------------------------------------------------------------
(* lib.rs: merge_coverage *)

\* mutant: `&` for `&&`, the merge runs whatever the check returned
MergeCalled_NoShortCircuit(compat) == TRUE

\* `check(..) == 0 && merge(..) == 0`: the merge runs only after the check
\* returned 0
MergeCalled(compat) == compat = 0

\* what the host may pass: the blob it holds, that blob with another
\* version, with other variant bits, or cut off after its header
MergeInputs ==
    {sink,
     IF sink = <<>> THEN sink ELSE [sink EXCEPT ![1] = 9],
     IF Len(sink) < 8 THEN sink ELSE [sink EXCEPT ![8] = 64],
     SubSeq(sink, 1, Min(Len(sink), HeaderSize))}

Merge(data) ==
    /\ pc = "idle"
    /\ IF ~VersionOk(version)
       THEN Panic
       ELSE \E compat \in {CheckCompatibility(data)} :
            \E called \in {MergeCalled(compat)} :
            \E merged \in {IF called THEN MergeStatus(data) ELSE 1} :
            \E sum \in {IF called /\ merged = 0
                        THEN Merged(counters, data) ELSE counters} :
                /\ \A i \in CounterIds : sum[i] <= MaxCount
                /\ rtLog' = <<Call("get_version", version),
                              Call("check_compatibility", compat)>>
                            \o (IF called
                                THEN <<Call("merge_from_buffer", merged)>>
                                ELSE <<>>)
                /\ counters' = sum
                /\ result' = IF compat = 0 /\ merged = 0
                             THEN "Ok" ELSE "IncompatibleCoverageData"
                /\ phase' = IF phase = 2 /\ data = sink THEN 3 ELSE 0
                /\ snap' = IF phase = 2 /\ data = sink THEN snap ELSE NoCounts
                /\ Forget
                /\ UNCHANGED <<version, alloc, heap, lastAlloc, pc, sink>>

-----------------------------------------------------------------------------
(* lib.rs: reset_coverage *)

Reset ==
    /\ pc = "idle"
    /\ IF ~VersionOk(version)
       THEN Panic
       ELSE /\ rtLog' = <<Call("get_version", version),
                          Call("reset_counters", 0)>>
            /\ counters' = NoCounts
            /\ result' = "unit"
            /\ phase' = IF phase = 1 THEN 2 ELSE 0
            /\ snap' = IF phase = 1 THEN counters ELSE NoCounts
            /\ Forget
            /\ UNCHANGED <<version, alloc, heap, lastAlloc, pc, sink>>

-----------------------------------------------------------------------------
(* The program: any runtime version, either build, the host calling the    *)
(* three operations in any order between runs of instrumented code.        *)

Versions ==
    { <<10, 0, 0, 0, 0, 0, 0, 0>>,
      <<10, 0, 0, 0, 1, 0, 0, 128>>,
      <<9, 0, 0, 0, 0, 0, 0, 0>>,
      <<10, 0, 0, 1, 0, 0, 0, 0>> }

Init ==
    /\ version \in Versions
    /\ alloc \in BOOLEAN
    /\ counters = NoCounts
    /\ heap = {}
    /\ lastAlloc = -1
    /\ mem = <<>>
    /\ pc = "idle"
    /\ queue = <<>>
    /\ vpReader = NULL
    /\ iovecs = <<>>
    /\ idx = 0
    /\ remaining = 0
    /\ status = 0
    /\ sink = <<>>
    /\ sinkCalls = <<>>
    /\ fed = <<>>
    /\ cbCount = 0
    /\ res = 0
    /\ result = "none"
    /\ rtLog = <<>>
    /\ phase = 0
    /\ snap = NoCounts

Next ==
    \/ \E i \in CounterIds : RunInstrumented(i)
    \/ \E s \in AllocSizes, a \in AllocAligns : ValueProfile(s, a)
    \/ \E p \in heap \cup {NULL}, s \in AllocSizes, a \in AllocAligns :
           RtRelease(p, s, a)
    \/ Capture
    \/ RtWrite
    \/ \E ok \in BOOLEAN : CbData(ok)
    \/ CbNull
    \/ \E ok \in BOOLEAN : CbPad(ok)
    \/ CbPadDone
    \/ CbReturn
    \/ RtResume
    \/ RtFinish
    \/ CaptureReturn
    \/ \E data \in MergeInputs : Merge(data)
    \/ Reset

Spec == Init /\ [][Next]_vars

-----------------------------------------------------------------------------
(* The bridge on its own: lprofWriteData hands write_callback any lists.    *)

BridgePtrs == {NULL, 3}

BridgeShapes == {<<0, 9>>, <<4, 0>>, <<4, 4>>, <<4, 9>>}

BridgeIOVecs ==
    {IOVec(p, s[1], s[2], IF p = NULL THEN 1 ELSE 0) :
        p \in BridgePtrs, s \in BridgeShapes}

BridgeLists(n) == UNION {[1..k -> BridgeIOVecs] : k \in 0..n}

\* memory with a different byte at every address
BridgeMem == [a \in 1..40 |-> (a * 37 + 11) % 256]

BridgeInit ==
    /\ version = <<10, 0, 0, 0, 0, 0, 0, 0>>
    /\ alloc = TRUE
    /\ counters = NoCounts
    /\ heap = {}
    /\ lastAlloc = -1
    /\ mem = BridgeMem
    /\ pc = "runtime"
    /\ queue = <<>>
    /\ vpReader = VPDataReader
    /\ iovecs = <<>>
    /\ idx = 0
    /\ remaining = 0
    /\ status = 0
    /\ sink = <<>>
    /\ sinkCalls = <<>>
    /\ fed = <<>>
    /\ cbCount = 0
    /\ res = 0
    /\ result = "pending"
    /\ rtLog = <<Call("get_version", version),
                 Call("lprofGetVPDataReader", VPDataReader)>>
    /\ phase = 0
    /\ snap = NoCounts

\* lprofWriteData calls Writer->Write with an arbitrary list
BridgeWrite(list) ==
    /\ pc = "runtime"
    /\ cbCount < MaxCallbacks
    /\ CbEnter(list)
    /\ UNCHANGED <<rtVars, mem, queue, vpReader, sink, sinkCalls, res, result,
                   rtLog, ghostVars>>

BridgeNext ==
    \/ \E list \in BridgeLists(MaxEntries - Len(fed)) : BridgeWrite(list)
    \/ \E ok \in BOOLEAN : CbData(ok)
    \/ CbNull
    \/ \E ok \in BOOLEAN : CbPad(ok)
    \/ CbPadDone
    \/ CbReturn
    \/ RtResume
    \/ RtFinish
    \/ CaptureReturn

SpecBridge == BridgeInit /\ [][BridgeNext]_vars

-----------------------------------------------------------------------------
(* What the claims speak of *)

\* the declared length of an entry
EntryLen(iov) == iov.ElmSize * iov.NumElm

\* the bytes an entry stands for: its backing bytes, or that many zero bytes
EntryBytes(iov) ==
    IF iov.Data = NULL
    THEN Zeros(EntryLen(iov))
    ELSE [j \in 1..EntryLen(iov) |-> mem[iov.Data + j - 1]]

\* the byte stream a list of entries stands for
Stream(entries) == Flatten([k \in 1..Len(entries) |-> EntryBytes(entries[k])])

RECURSIVE SumLen(_)
SumLen(entries) ==
    IF entries = <<>> THEN 0 ELSE EntryLen(Head(entries)) + SumLen(Tail(entries))

\* every chunk the sink was called with, concatenated in call order
Chunks == Flatten([k \in 1..Len(sinkCalls) |-> sinkCalls[k].chunk])

\* the chunks the sink accepted, concatenated in call order
Accepted ==
    Flatten([k \in 1..Len(sinkCalls) |->
                IF sinkCalls[k].ok THEN sinkCalls[k].chunk ELSE <<>>])

NoFailure == \A k \in DOMAIN sinkCalls : sinkCalls[k].ok

\* the calls made for entry number j of the capture
CallsFor(j) == {k \in DOMAIN sinkCalls : sinkCalls[k].entry = j}

\* the entries of the capture write_callback is through with
Completed == Len(fed) - Len(iovecs) + idx

\* the bytes of the chunks the sink accepted for entry number j
BytesFor(j) ==
    Len(Flatten([k \in 1..Len(sinkCalls) |->
                    IF sinkCalls[k].entry = j /\ sinkCalls[k].ok
                    THEN sinkCalls[k].chunk ELSE <<>>]))

CeilDiv(a, b) == (a + b - 1) \div b

\* C1: with a sink that never fails, when write_callback returns it returns
\* 0, and the chunks the sink received, concatenated in call order, are the
\* backing bytes of each backed entry and ElmSize*NumElm zero bytes for each
\* null entry, in entry order; their number is the sum of ElmSize*NumElm.
C1_StreamIsEntriesInOrder ==
    (pc = "ret" /\ NoFailure) =>
        /\ status = 0
        /\ Chunks = Stream(fed)
        /\ sink = Chunks
        /\ Len(Chunks) = SumLen(fed)

C1_Witness ==
    /\ pc = "ret"
    /\ NoFailure
    /\ cbCount = 2
    /\ \E j \in DOMAIN fed : fed[j].Data = NULL /\ EntryLen(fed[j]) > 16
    /\ \E j \in DOMAIN fed : fed[j].Data # NULL /\ EntryLen(fed[j]) > 16
    /\ \E j \in DOMAIN fed : EntryLen(fed[j]) = 0

\* C2, as claimed: no sink call is made for an entry with ElmSize = 0 or
\* NumElm = 0, whether its Data pointer is null or not, and the sink is never
\* called with an empty chunk.
C2_NoCallForZeroLength ==
    \A k \in DOMAIN sinkCalls :
        /\ EntryLen(fed[sinkCalls[k].entry]) # 0
        /\ sinkCalls[k].chunk # <<>>

\* C2, amended: no sink call is made for a zero-length entry whose Data
\* pointer is null; for a zero-length entry whose Data pointer is not null the
\* sink is called exactly once, with an empty chunk; the sink is called with
\* an empty chunk for no other entry.
C2_ZeroLengthEntries ==
    /\ \A j \in 1..Completed :
           EntryLen(fed[j]) = 0 =>
               Cardinality(CallsFor(j)) = IF fed[j].Data = NULL THEN 0 ELSE 1
    /\ \A k \in DOMAIN sinkCalls :
           LET iov == fed[sinkCalls[k].entry]
           IN  (EntryLen(iov) = 0 \/ sinkCalls[k].chunk = <<>>) =>
                   /\ iov.Data # NULL
                   /\ EntryLen(iov) = 0
                   /\ sinkCalls[k].chunk = <<>>
                   /\ CallsFor(sinkCalls[k].entry) = {k}

C2_Witness ==
    /\ pc = "ret"
    /\ status = 0
    /\ \E j \in DOMAIN fed :
           fed[j].Data = NULL /\ fed[j].ElmSize = 0 /\ CallsFor(j) = {}
    /\ \E j \in DOMAIN fed :
           fed[j].Data = NULL /\ fed[j].NumElm = 0 /\ CallsFor(j) = {}
    /\ \E j \in DOMAIN fed :
           /\ fed[j].Data # NULL
           /\ EntryLen(fed[j]) = 0
           /\ \E k \in CallsFor(j) : sinkCalls[k].chunk = <<>>

\* C3: a sink write that returns an error is the last call the sink gets in
\* this write_callback invocation: write_callback has returned, its status is
\* not 0, and neither the rest of the padding of that entry nor a later entry
\* has been forwarded; the status is nonzero only after such an error.
C3_StopAtFirstError ==
    /\ \A k \in DOMAIN sinkCalls :
           ~sinkCalls[k].ok =>
               /\ k = Len(sinkCalls)
               /\ pc \in {"ret", "done", "unwrap_failed"}
               /\ status # 0
               /\ sinkCalls[k].entry = Completed + 1
    /\ status # 0 => sinkCalls # <<>> /\ ~sinkCalls[Len(sinkCalls)].ok

C3_Witness ==
    /\ pc = "ret"
    /\ status = 1
    /\ Len(sinkCalls) = 3
    /\ ~sinkCalls[3].ok
    /\ fed[sinkCalls[3].entry].Data = NULL
    /\ remaining > 16
    /\ idx + 1 < Len(iovecs)

\* C9: for a null entry of length L the padding loop makes ceil(L/16) sink
\* calls when no call fails: every chunk is all zero and has 1 to 16 bytes,
\* every chunk but the last one has 16, and `remaining` is L less the bytes
\* written so far, which never goes below 0.
C9_PaddingChunks ==
    /\ \A k \in DOMAIN sinkCalls :
           LET c == sinkCalls[k]
               iov == fed[c.entry]
           IN  iov.Data = NULL =>
                   /\ c.chunk = Zeros(Len(c.chunk))
                   /\ Len(c.chunk) \in 1..16
                   /\ (k < Len(sinkCalls) /\ sinkCalls[k + 1].entry = c.entry) =>
                          Len(c.chunk) = 16
    /\ \A j \in 1..Completed :
           fed[j].Data = NULL =>
               Cardinality(CallsFor(j)) = CeilDiv(EntryLen(fed[j]), 16)
    /\ pc = "pad" =>
           /\ remaining >= 0
           /\ remaining = EntryLen(fed[Completed + 1]) - BytesFor(Completed + 1)
           /\ remaining > 0 => BytesFor(Completed + 1)
                                = 16 * Cardinality(CallsFor(Completed + 1))

C9_Witness ==
    /\ pc = "loop"
    /\ NoFailure
    /\ \E j \in 1..Completed :
           /\ fed[j].Data = NULL
           /\ EntryLen(fed[j]) = 36
           /\ Cardinality(CallsFor(j)) = 3
           /\ \E k \in CallsFor(j) : Len(sinkCalls[k].chunk) = 4
    /\ \E j \in 1..Completed :
           /\ fed[j].Data = NULL
           /\ EntryLen(fed[j]) = 16
           /\ Cardinality(CallsFor(j)) = 1

\* C10: at every point of a capture the bytes the sink has accepted are the
\* accepted chunks in call order and a prefix of the stream the lists handed
\* over so far stand for; up to the entry write_callback is at, nothing is
\* missing.
C10_AcceptedIsPrefix ==
    /\ sink = Accepted
    /\ IsPrefix(sink, Stream(fed))
    /\ IsPrefix(Stream(SubSeq(fed, 1, Completed)), sink)

C10_Witness ==
    /\ pc = "unwrap_failed"
    /\ cbCount = 2
    /\ Len(sinkCalls) > 2
    /\ ~sinkCalls[Len(sinkCalls)].ok
    /\ sink # <<>>
    /\ Len(sink) < Len(Stream(fed))
    /\ \E j \in 1..Completed : fed[j].Data = NULL /\ EntryLen(fed[j]) > 0
    /\ \E j \in 1..Completed : fed[j].Data # NULL /\ EntryLen(fed[j]) > 0

\* the last host operation was a capture, and it has returned
CaptureReturned ==
    /\ pc \in {"idle", "unwrap_failed"}
    /\ Len(rtLog) = 3
    /\ rtLog[3].fn = "lprofWriteData"

\* capture_coverage is inside lprofWriteData
InWriteData == pc \in {"runtime", "loop", "pad", "ret", "done"}

\* the version word with its upper 32 bits masked off is 10
LowWordIsTen(v) == SubSeq(v, 1, 4) = <<10, 0, 0, 0>>

\* C4: a merge_coverage that returns IncompatibleCoverageData leaves every
\* live counter as it was, and when the compatibility check rejected the blob
\* the merge-from-buffer entry point was not called.
C4_ErrLeavesCounters ==
    [][(/\ result' = "IncompatibleCoverageData"
        /\ Len(rtLog') >= 2
        /\ rtLog'[2].fn = "check_compatibility") =>
           /\ counters' = counters
           /\ rtLog'[2].ret # 0 => Len(rtLog') = 2]_vars

C4_Witness ==
    /\ result = "IncompatibleCoverageData"
    /\ Len(rtLog) = 2
    /\ rtLog[2].fn = "check_compatibility"
    /\ rtLog[2].ret # 0
    /\ counters # NoCounts
    /\ Len(sink) >= BodySize
    /\ \E i \in CounterIds : BlobCounter(sink, i) > 0

\* C5: in capture_coverage, merge_coverage and reset_coverage the first call
\* into the runtime is the version query; when the version word with its
\* upper 32 bits masked off is not 10 the operation panics after that call
\* alone, with counters, allocations and sink untouched, so that no sink
\* write, lprofWriteData, compatibility check, merge or reset ever happens;
\* when it is 10 no operation panics, whatever the upper 32 bits are.
C5_VersionCheckFirst ==
    [][/\ rtLog' # <<>> => rtLog'[1].fn = "get_version"
       /\ (pc' = "panicked" /\ pc # "panicked") =>
              /\ ~LowWordIsTen(version)
              /\ rtLog' = <<Call("get_version", version)>>
              /\ UNCHANGED <<counters, heap, sink, sinkCalls, result>>
       /\ LowWordIsTen(version) => pc' # "panicked"
       /\ ~LowWordIsTen(version) =>
              /\ pc' \in {"idle", "panicked"}
              /\ Len(rtLog') <= 1
              /\ sink' = <<>> /\ sinkCalls' = <<>>
              /\ counters' # counters => rtLog' = <<>>]_vars

C5_Witness ==
    /\ pc = "panicked"
    /\ version[1] = 10
    /\ version[4] # 0
    /\ counters # NoCounts
    /\ rtLog = <<Call("get_version", version)>>

\* C6: a capture into a sink that did not fail, then a reset, then a merge of
\* the captured blob, with no instrumented code run in between: the merge
\* returns Ok and every live counter has the value it had immediately before
\* the reset.
C6_RoundTrip ==
    phase = 3 => result = "Ok" /\ counters = snap

C6_Witness ==
    /\ phase = 3
    /\ snap[1] # snap[2]
    /\ \A i \in CounterIds : snap[i] > 0
    /\ version[8] # 0

\* C7: capture_coverage returns Ok exactly when lprofWriteData returned 0 and
\* CoverageWriteError otherwise; a sink write that failed during the capture
\* makes it return CoverageWriteError, and an Ok comes with the whole blob.
C7_CaptureResult ==
    CaptureReturned =>
        /\ result \in {"Ok", "CoverageWriteError"}
        /\ result = "Ok" <=> rtLog[3].ret = 0
        /\ ~NoFailure => result = "CoverageWriteError"
        /\ result = "Ok" => sink = Blob(version, counters, VPNodes)

C7_Witness ==
    /\ CaptureReturned
    /\ result = "CoverageWriteError"
    /\ rtLog[3].ret # 0
    /\ Len(sinkCalls) >= 3
    /\ sink # <<>>
    /\ Len(sink) < Len(Blob(version, counters, VPNodes))

\* C8, as claimed: capture_coverage passes the value-profiling reader handle
\* to lprofWriteData when the allocation capability is enabled and a null
\* handle when it is disabled.
C8_ReaderOnlyWithAlloc ==
    InWriteData => (vpReader # NULL <=> alloc)

\* C8, amended: capture_coverage passes the runtime's value-profiling reader
\* handle to lprofWriteData whether or not the allocation capability is
\* enabled; when it is disabled allocate-zeroed returns null for every size
\* and alignment, deallocate has no effect, no block is ever live, and a
\* capture into a sink that does not fail returns Ok with a blob that lacks
\* only value-profiling data.
C8_AllocDisabled ==
    /\ InWriteData => vpReader = VPDataReader
    /\ ~alloc =>
           /\ lastAlloc \in {-1, NULL}
           /\ heap = {}
           /\ (CaptureReturned /\ NoFailure) =>
                  /\ result = "Ok"
                  /\ sink = Blob(version, counters, 0)

C8_Witness ==
    /\ ~alloc
    /\ lastAlloc = NULL
    /\ CaptureReturned
    /\ vpReader = VPDataReader
    /\ result = "Ok"
    /\ counters # NoCounts

====
